---- MODULE Spec2Model ----
(***************************************************************************)
(* Model of the HR question-answering RAG pipeline: the character-window   *)
(* chunker (PDFProcessor.chunk_text), the ingestion pipeline               *)
(* (embed_documents.main -> PDFProcessor.process_pdf ->                    *)
(* CosmosVectorDB.insert_documents) and the store's vector search          *)
(* (CosmosVectorDB.search).                                                *)
(*                                                                         *)
(* Texts are sequences of one-character strings.  The MD5 digest, the      *)
(* embedding service, the PDF reader, the MongoDB collection and the chat  *)
(* agent are external; each is modelled by its contract, and the           *)
(* outcome of every call that can raise is a nondeterministic choice.      *)
(***************************************************************************)
EXTENDS Integers, Sequences, FiniteSets, TLC

VARIABLES
    pc,               \* position of the running entry point
    pdf_path,         \* process_pdf: the file being processed
    text,             \* process_pdf / chunk_text: the extracted text
    extract_failed,   \* extract_text_from_pdf took its except branch
    chunk_size,       \* settings.CHUNK_SIZE as passed to chunk_text
    overlap,          \* settings.CHUNK_OVERLAP as passed to chunk_text
    start,            \* chunk_text: the window offset
    chunks,           \* chunk_text: the list being built / returned
    documents,        \* process_pdf: the list of documents built / returned
    todo,             \* main: the pdf files not yet processed
    doc_idx,          \* insert_documents: number of documents already looped over
    write_ok,         \* per looped-over document: replace_one did not raise
    inserted_count,   \* insert_documents: the count being built / returned
    total_documents,  \* main: the running total
    store,            \* the collection: a set of records with unique _id
    processed,        \* number of files handed to process_pdf so far
    faults,           \* number of external calls that have raised so far
    top_k,            \* search: the top_k of the call (0: no call)
    results,          \* search: the value returned by the call
    doc_id,           \* delete_document: the id of the call (<<>>: no call)
    deleted,          \* delete_document: the value returned by the call
    mode,             \* the question entry point running ("": none)
    cosmos_db,        \* the entry point's CosmosVectorDB: "none", "open", "closed"
    model_client,     \* the team's chat client: "none", "open", "closed"
    index_exists,     \* the collection has the index vectorSearchIndex
    index_attempts,   \* calls of _create_vector_index by the constructor
    model_context,    \* the messages the agent hr_assistant has kept
    question,         \* ask_question: its argument
    stages,           \* ask_question: the stages the call has passed
    question_embedding, \* ask_question: the embedding of the question
    augmented_message,  \* ask_question: the prompt built from the results
    chat_requests,    \* ask_question: the inputs sent to the chat service
    response,         \* ask_question: the text the chat service returned
    answer,           \* ask_question: the value returned
    exit_path         \* how the entry point left its loop or call ("": it has not)

\* The state of the question side: the delete call, the entry point's objects
\* and the locals of ask_question.
queryVars == <<doc_id, deleted, mode, cosmos_db, model_client, index_exists,
               index_attempts, model_context, question, stages,
               question_embedding, augmented_message, chat_requests, response,
               answer, exit_path>>

\* The locals of the ingestion side.
ingestVars == <<pdf_path, text, extract_failed, chunk_size, overlap, start,
                chunks, documents, todo, doc_idx, write_ok, inserted_count,
                total_documents, processed>>

vars == <<pc, pdf_path, text, extract_failed, chunk_size, overlap, start, chunks,
          documents, todo, doc_idx, write_ok, inserted_count,
          total_documents, store, processed, faults, top_k, results, queryVars>>

-----------------------------------------------------------------------------
(* Bounds of the model *)

MaxTextLen == 4
MaxChunkSize == 3
MaxExtraIter == 2
MaxFiles == 2
MaxFaults == 2
MaxPages == 1
MaxTopK == 2
MaxQuestions == 2

\* Cap on the iterations of a chunk_text loop that never exits; a loop that
\* exits does so within Len(t) iterations.
IterCap(t) == Len(t) + MaxExtraIter

-----------------------------------------------------------------------------
(* Characters and Python string primitives *)

Whitespace == {" ", "\n"}
Letters == {"a", "b"}
Chars == Letters \cup Whitespace

Min(a, b) == IF a < b THEN a ELSE b
Max(a, b) == IF a > b THEN a ELSE b

\* text[i:j] with Python's slice semantics (negative indices count from the
\* end, out-of-range indices are clamped).
NormIndex(i, n) == IF i < 0 THEN Max(i + n, 0) ELSE Min(i, n)

PySlice(s, i, j) ==
    LET lo == NormIndex(i, Len(s))
        hi == NormIndex(j, Len(s))
    IN  IF lo < hi THEN SubSeq(s, lo + 1, hi) ELSE <<>>

\* Variant of Strip that trims the left edge only (str.lstrip).
StripLeft(s) ==
    LET solid == {i \in 1..Len(s) : s[i] \notin Whitespace}
    IN  IF solid = {} THEN <<>>
        ELSE SubSeq(s, CHOOSE i \in solid : \A k \in solid : i <= k, Len(s))

\* str.strip(): drop leading and trailing whitespace.
Strip(s) ==
    LET solid == {i \in 1..Len(s) : s[i] \notin Whitespace}
    IN  IF solid = {} THEN <<>>
        ELSE LET lo == CHOOSE i \in solid : \A k \in solid : i <= k
                 hi == CHOOSE i \in solid : \A k \in solid : i >= k
             IN  SubSeq(s, lo, hi)

\* The docstring example of chunk_text.
HelloText == <<"H","e","l","l","o"," ","w","o","r","l","d"," ","t","e","s","t">>
HelloChunkSize == 10
HelloOverlap == 3

-----------------------------------------------------------------------------
(* PDFProcessor.chunk_text, one loop iteration per step *)

\* chunk = text[start:end].strip(), with end = start + chunk_size
Window(t, st, cs) == Strip(PySlice(t, st, st + cs))

\* Variant of Advance with the operands of the stride swapped.
AdvanceSwapped(st, cs, ov) == st + (ov - cs)

\* start += (chunk_size - overlap)
Advance(st, cs, ov) == st + (cs - ov)

\* Variant of LoopTest that stops before a last, partial window.
LoopTestFullWindow == start + chunk_size <= Len(text)

\* The loop test `start < text_length`.
LoopTest == start < Len(text)

\* `if chunk: chunks.append(chunk)`
AppendChunk(cs, c) == IF c # <<>> THEN Append(cs, c) ELSE cs

\* One iteration of the while loop.  The two bounds in the guard only cut
\* runs that never leave the loop.
ChunkLoop ==
    /\ pc = "chunk"
    /\ LoopTest
    /\ Len(chunks) < IterCap(text)
    /\ start > -IterCap(text)
    /\ chunks' = AppendChunk(chunks, Window(text, start, chunk_size))
    /\ start' = Advance(start, chunk_size, overlap)
    /\ UNCHANGED <<pc, pdf_path, text, extract_failed, chunk_size, overlap,
                   documents, todo, doc_idx, write_ok,
                   inserted_count, total_documents, store, processed, faults, top_k, results>>
    /\ UNCHANGED queryVars

\* Loop exit: chunk_text returns `chunks` to process_pdf, which starts its
\* embedding loop.
ChunkReturn ==
    /\ pc = "chunk"
    /\ ~LoopTest
    /\ pc' = "embed"
    /\ documents' = <<>>
    /\ UNCHANGED <<pdf_path, text, extract_failed, chunk_size, overlap, start,
                   chunks, todo, doc_idx, write_ok, inserted_count,
                   total_documents, store, processed, faults, top_k, results>>
    /\ UNCHANGED queryVars

-----------------------------------------------------------------------------
(* The chunker on its own: every bounded text and parameter choice *)

RECURSIVE SeqsUpTo(_, _)
SeqsUpTo(S, n) ==
    IF n = 0 THEN {<<>>}
    ELSE LET shorter == SeqsUpTo(S, n - 1)
         IN  shorter \cup {Append(s, c) : s \in shorter, c \in S}

ChunkInputs ==
    {<<t, cs, ov>> : t \in SeqsUpTo(Chars, MaxTextLen),
                     cs \in 1..MaxChunkSize, ov \in 0..(MaxChunkSize + 1)}
        \cup {<<HelloText, HelloChunkSize, HelloOverlap>>}

InitChunk ==
    /\ \E inp \in ChunkInputs :
          /\ text = inp[1]
          /\ chunk_size = inp[2]
          /\ overlap = inp[3]
    /\ pc = "chunk"
    /\ start = 0
    /\ chunks = <<>>
    /\ pdf_path = ""
    /\ extract_failed = FALSE
    /\ documents = <<>>
    /\ todo = <<>>
    /\ doc_idx = 0
    /\ write_ok = <<>>
    /\ inserted_count = 0
    /\ total_documents = 0
    /\ store = {}
    /\ processed = 0
    /\ faults = 0
    /\ top_k = 0
    /\ results = <<>>
    /\ doc_id = <<>>
    /\ deleted = FALSE
    /\ mode = ""
    /\ cosmos_db = "none"
    /\ model_client = "none"
    /\ index_exists = FALSE
    /\ index_attempts = 0
    /\ model_context = <<>>
    /\ question = <<>>
    /\ stages = <<>>
    /\ question_embedding = <<>>
    /\ augmented_message = <<>>
    /\ chat_requests = <<>>
    /\ response = <<>>
    /\ answer = <<>>
    /\ exit_path = ""

NextChunk == ChunkLoop \/ ChunkReturn

SpecChunk == InitChunk /\ [][NextChunk]_vars

\* chunk_text is straight-line synchronous code: a step that can be taken is
\* taken.
FairSpecChunk == SpecChunk /\ WF_vars(NextChunk)

-----------------------------------------------------------------------------
(* The external services, by the contract the code relies on *)

\* settings.CHUNK_SIZE, as set by the environment of the modelled runs;
\* settings.CHUNK_OVERLAP is any value from 0 to CHUNK_SIZE.
CHUNK_SIZE == 2

\* The files settings.DATA_DIR.glob("*.pdf") can list (the directory holds
\* none, one or both of them), and os.path.basename.
PdfFiles == <<"data/a.pdf", "data/b.pdf">>
FileLists == {<<>>, <<PdfFiles[1]>>, PdfFiles}
Basename(p) == IF p = PdfFiles[1] THEN "a.pdf" ELSE "b.pdf"

\* What page.extract_text() can return for a page.
PageTexts == {<<"a", "b">>, <<"a", " ", "a">>, <<" ">>}

\* hashlib.md5(content.encode()).hexdigest(): a digest that tells apart the
\* contents of the model (MD5 collisions are outside the model).
Md5(content) == <<"md5", content>>

\* response.data[0].embedding of the embedding service: a fixed-length vector
\* that is a function of the text (here the counts of the two letters).
CountOf(t, c) == Cardinality({i \in 1..Len(t) : t[i] = c})
Embedding(t) == <<CountOf(t, "a"), CountOf(t, "b")>>

\* Variant of ReplaceOne that adds doc without replacing (an insert).
ReplaceOneInsertOnly(coll, id, doc) == coll \cup {doc}

\* collection.replace_one({"_id": id}, doc, upsert=True): the record with that
\* _id is replaced by doc, or doc is inserted when there is none.
ReplaceOne(coll, id, doc) ==
    LET matching == {r \in coll : r._id = id}
    IN  IF matching = {} THEN coll \cup {doc}
        ELSE (coll \ {CHOOSE r \in matching : TRUE}) \cup {doc}

-----------------------------------------------------------------------------
(* embed_documents.main and PDFProcessor.process_pdf *)

\* main up to its loop over the pdf files found in the data directory.
MainStart ==
    /\ pc = "idle"
    /\ \E found \in FileLists :
          /\ processed + Len(found) <= MaxFiles
          /\ processed' = processed + Len(found)
          /\ todo' = found
          /\ pc' = IF found = <<>> THEN "idle" ELSE "main_loop"
    /\ total_documents' = 0
    /\ pdf_path' = ""
    /\ text' = <<>>
    /\ extract_failed' = FALSE
    /\ start' = 0
    /\ chunks' = <<>>
    /\ documents' = <<>>
    /\ doc_idx' = 0
    /\ write_ok' = <<>>
    /\ inserted_count' = 0
    /\ top_k' = 0
    /\ results' = <<>>
    /\ UNCHANGED <<chunk_size, overlap, store, faults>>
    /\ UNCHANGED queryVars

\* `for pdf_file in pdf_files`: the next file enters process_pdf.
MainNextFile ==
    /\ pc = "main_loop"
    /\ todo # <<>>
    /\ pdf_path' = Head(todo)
    /\ todo' = Tail(todo)
    /\ pc' = "extract"
    /\ UNCHANGED <<text, extract_failed, chunk_size, overlap, start, chunks,
                   documents, doc_idx, write_ok, inserted_count,
                   total_documents, store, processed, faults, top_k, results>>
    /\ UNCHANGED queryVars

\* The loop is over: the summary with the running total is printed and main
\* returns.
MainDone ==
    /\ pc = "main_loop"
    /\ todo = <<>>
    /\ pc' = "idle"
    /\ total_documents' = 0
    /\ UNCHANGED <<pdf_path, text, extract_failed, chunk_size, overlap, start,
                   chunks, documents, todo, doc_idx, write_ok, inserted_count,
                   store, processed, faults, top_k, results>>
    /\ UNCHANGED queryVars

\* extract_text_from_pdf: `text += page.extract_text() + "\n"` for the first
\* n pages.
RECURSIVE PagesText(_, _)
PagesText(pages, n) ==
    IF n = 0 THEN <<>>
    ELSE PagesText(pages, n - 1) \o pages[n] \o <<"\n">>

\* process_pdf up to the return of extract_text_from_pdf.  `pages` are the
\* pages read; the read then ends, or raises (on open when there is no page
\* read, else on the page that follows) and the except branch falls through to
\* `return text` with the text read so far.
ExtractText ==
    /\ pc = "extract"
    /\ \E pages \in SeqsUpTo(PageTexts, MaxPages), failed \in BOOLEAN :
          /\ failed => faults < MaxFaults
          /\ faults' = IF failed THEN faults + 1 ELSE faults
          /\ text' = PagesText(pages, Len(pages))
          /\ extract_failed' = failed
    /\ pc' = "extracted"
    /\ start' = 0
    /\ chunks' = <<>>
    /\ documents' = <<>>
    /\ UNCHANGED <<pdf_path, chunk_size, overlap, todo, doc_idx, write_ok,
                   inserted_count, total_documents, store, processed, top_k, results>>
    /\ UNCHANGED queryVars

\* `not text.strip()`
IsBlank(t) == Strip(t) = <<>>

\* Variant of CheckText that raises on a blank text: main has no handler
\* around process_pdf, so the batch ends there.
CheckTextRaiseOnBlank ==
    /\ pc = "extracted"
    /\ IF IsBlank(text)
       THEN /\ pc' = "idle"
            /\ text' = <<>>
            /\ extract_failed' = FALSE
            /\ pdf_path' = ""
            /\ todo' = <<>>
            /\ total_documents' = 0
       ELSE /\ pc' = "chunk"
            /\ UNCHANGED <<text, extract_failed, pdf_path, todo, total_documents>>
    /\ UNCHANGED <<chunk_size, overlap, start, chunks, documents, doc_idx,
                   write_ok, inserted_count, store, processed, faults,
                   top_k, results>>
    /\ UNCHANGED queryVars

\* `if not text.strip(): return []`: a blank text ends process_pdf with no
\* document, and main, which gets an empty list, goes on with its loop; any
\* other text enters chunk_text.
CheckText ==
    /\ pc = "extracted"
    /\ IF IsBlank(text)
       THEN /\ pc' = "main_loop"
            /\ text' = <<>>
            /\ extract_failed' = FALSE
            /\ pdf_path' = ""
       ELSE /\ pc' = "chunk"
            /\ UNCHANGED <<text, extract_failed, pdf_path>>
    /\ UNCHANGED <<chunk_size, overlap, start, chunks, documents, todo, doc_idx,
                   write_ok, inserted_count, total_documents, store, processed,
                   faults, top_k, results>>
    /\ UNCHANGED queryVars

\* generate_embedding: the service's vector, or [] from the except branch.
GenerateEmbedding(t, ok) == IF ok THEN Embedding(t) ELSE <<>>

\* Variant of MakeDocument that numbers the chunks from 1.
MakeDocumentOneBased(chunk, embedding, i, n, path) ==
    [content |-> chunk,
     contentVector |-> embedding,
     metadata |-> [source |-> Basename(path), full_path |-> path,
                   chunk_id |-> i + 1, total_chunks |-> n]]

\* The document process_pdf builds for chunk number i (0-based) of n.
MakeDocument(chunk, embedding, i, n, path) ==
    [content |-> chunk,
     contentVector |-> embedding,
     metadata |-> [source |-> Basename(path), full_path |-> path,
                   chunk_id |-> i, total_chunks |-> n]]

\* One iteration of `for i, chunk in enumerate(chunks)`.
EmbedChunk ==
    /\ pc = "embed"
    /\ Len(documents) < Len(chunks)
    /\ \E ok \in BOOLEAN :
          /\ ~ok => faults < MaxFaults
          /\ faults' = IF ok THEN faults ELSE faults + 1
          /\ documents' = Append(documents,
                 MakeDocument(chunks[Len(documents) + 1],
                              GenerateEmbedding(chunks[Len(documents) + 1], ok),
                              Len(documents), Len(chunks), pdf_path))
    /\ UNCHANGED <<pc, pdf_path, text, extract_failed, chunk_size, overlap,
                   start, chunks, todo, doc_idx, write_ok, inserted_count,
                   total_documents, store, processed, top_k, results>>
    /\ UNCHANGED queryVars

\* process_pdf returns its documents (its locals go out of scope); main calls
\* insert_documents when the list is not empty.
ProcessReturn ==
    /\ pc = "embed"
    /\ Len(documents) = Len(chunks)
    /\ pc' = IF documents # <<>> THEN "insert" ELSE "main_loop"
    /\ text' = <<>>
    /\ start' = 0
    /\ chunks' = <<>>
    /\ doc_idx' = 0
    /\ write_ok' = <<>>
    /\ inserted_count' = 0
    /\ UNCHANGED <<pdf_path, extract_failed, chunk_size, overlap, documents,
                   todo, total_documents, store, processed, faults, top_k, results>>
    /\ UNCHANGED queryVars

-----------------------------------------------------------------------------
(* CosmosVectorDB.insert_documents, one document per step *)

\* Variant of DocId that derives the id from the source file and chunk index.
DocIdByPosition(doc) ==
    IF "_id" \in DOMAIN doc THEN doc._id
    ELSE <<"doc_", doc.metadata.source, doc.metadata.chunk_id>>

\* The _id of a document: the caller's, or "doc_" + the MD5 of its content.
DocId(doc) ==
    IF "_id" \in DOMAIN doc THEN doc._id
    ELSE <<"doc_", Md5(doc.content)>>

\* doc["_id"] = ...: the document with its _id set.
WithId(doc) ==
    [f \in DOMAIN doc \cup {"_id"} |-> IF f = "_id" THEN DocId(doc) ELSE doc[f]]

\* Variant of InsertDocument with the try/except around the whole loop: the
\* first write that raises ends the loop.
InsertDocumentStopOnError ==
    /\ pc = "insert"
    /\ doc_idx < Len(documents)
    /\ LET doc == WithId(documents[doc_idx + 1])
       IN  /\ documents' = [documents EXCEPT ![doc_idx + 1] = doc]
           /\ \E ok \in BOOLEAN :
                 /\ ~ok => faults < MaxFaults
                 /\ faults' = IF ok THEN faults ELSE faults + 1
                 /\ store' = IF ok THEN ReplaceOne(store, doc._id, doc) ELSE store
                 /\ inserted_count' = IF ok THEN inserted_count + 1 ELSE inserted_count
                 /\ write_ok' = Append(write_ok, ok)
                 /\ doc_idx' = IF ok THEN doc_idx + 1 ELSE Len(documents)
    /\ UNCHANGED <<pc, pdf_path, text, extract_failed, chunk_size, overlap,
                   start, chunks, todo, total_documents, processed, top_k, results>>
    /\ UNCHANGED queryVars

\* One iteration of `for doc in documents`: the write either succeeds or
\* raises, and the loop goes on in both cases.
InsertDocument ==
    /\ pc = "insert"
    /\ doc_idx < Len(documents)
    /\ LET doc == WithId(documents[doc_idx + 1])
       IN  /\ documents' = [documents EXCEPT ![doc_idx + 1] = doc]
           /\ \E ok \in BOOLEAN :
                 /\ ~ok => faults < MaxFaults
                 /\ faults' = IF ok THEN faults ELSE faults + 1
                 /\ store' = IF ok THEN ReplaceOne(store, doc._id, doc) ELSE store
                 /\ inserted_count' = IF ok THEN inserted_count + 1 ELSE inserted_count
                 /\ write_ok' = Append(write_ok, ok)
    /\ doc_idx' = doc_idx + 1
    /\ UNCHANGED <<pc, pdf_path, text, extract_failed, chunk_size, overlap,
                   start, chunks, todo, total_documents, processed, top_k, results>>
    /\ UNCHANGED queryVars

\* insert_documents returns its count and main adds it to the running total.
InsertReturn ==
    /\ pc = "insert"
    /\ doc_idx = Len(documents)
    /\ total_documents' = total_documents + inserted_count
    /\ pc' = "main_loop"
    /\ pdf_path' = ""
    /\ extract_failed' = FALSE
    /\ documents' = <<>>
    /\ doc_idx' = 0
    /\ write_ok' = <<>>
    /\ inserted_count' = 0
    /\ UNCHANGED <<text, chunk_size, overlap, start, chunks, todo, store, processed, faults,
                   top_k, results>>
    /\ UNCHANGED queryVars

-----------------------------------------------------------------------------
(* CosmosVectorDB.search *)

\* The texts a query vector is the embedding of.
Questions == {<<"a">>, <<"b">>, <<"a", "b">>}

\* {"$meta": "searchScore"}: the store's similarity of a record to the query
\* vector (here the inner product; 0 when either vector is empty).
SearchScore(q, rec) ==
    IF Len(q) = 0 \/ Len(rec.contentVector) # Len(q) THEN 0
    ELSE q[1] * rec.contentVector[1] + q[2] * rec.contentVector[2]

\* similarity_threshold values, on the scale of SearchScore.
Thresholds == 0..2

\* What the $search stage can return for "k": k (approximate nearest
\* neighbours): up to k distinct records in descending order of score.
SearchHits(coll, q, k) ==
    {h \in SeqsUpTo(coll, k) :
        /\ \A i, j \in 1..Len(h) : i # j => h[i] # h[j]
        /\ \A i \in 1..(Len(h) - 1) :
              SearchScore(q, h[i]) >= SearchScore(q, h[i + 1])}

\* Variant of SearchK that asks for one hit more than top_k.
SearchKUnlimited(k) == k + 1

\* The "k" the pipeline asks for.
SearchK(k) == k

\* The $project stage.
Project(q, rec) ==
    [_id |-> rec._id, content |-> rec.content, metadata |-> rec.metadata,
     similarity |-> SearchScore(q, rec)]

\* `if similarity_threshold > 0.0:` keep the results at or above it.
AtLeast(threshold, doc) == doc.similarity >= threshold

ThresholdFilter(res, threshold) ==
    IF threshold > 0
    THEN SelectSeq(res, LAMBDA doc : AtLeast(threshold, doc))
    ELSE res

\* search(query_embedding, top_k, similarity_threshold): the aggregate either
\* raises (the result is []) or returns its hits, which are then filtered.
Search ==
    /\ pc = "idle"
    /\ \E asked \in Questions, embedded \in BOOLEAN, k \in 1..MaxTopK,
          threshold \in Thresholds, ok \in BOOLEAN :
          LET q == GenerateEmbedding(asked, embedded)
          IN  /\ top_k' = k
              /\ pc' = "searched"
              /\ ~ok => faults < MaxFaults
              /\ faults' = IF ok THEN faults ELSE faults + 1
              /\ IF ok
                 THEN \E h \in SearchHits(store, q, SearchK(k)) :
                         results' = ThresholdFilter(
                             [i \in 1..Len(h) |-> Project(q, h[i])], threshold)
                 ELSE results' = <<>>
    /\ UNCHANGED <<pdf_path, text, extract_failed, chunk_size, overlap,
                   start, chunks, documents, todo, doc_idx, write_ok,
                   inserted_count, total_documents, store, processed>>
    /\ UNCHANGED queryVars

\* The caller is done with the returned list.
SearchDone ==
    /\ pc = "searched"
    /\ pc' = "idle"
    /\ top_k' = 0
    /\ results' = <<>>
    /\ UNCHANGED <<pdf_path, text, extract_failed, chunk_size, overlap,
                   start, chunks, documents, todo, doc_idx, write_ok,
                   inserted_count, total_documents, store, processed, faults>>
    /\ UNCHANGED queryVars

-----------------------------------------------------------------------------
(* The batch entry point, started any number of times on one store until
   MaxFiles files have been processed, with searches between the runs *)

Init ==
    /\ pc = "idle"
    /\ chunk_size = CHUNK_SIZE
    /\ overlap \in 0..CHUNK_SIZE
    /\ start = 0
    /\ chunks = <<>>
    /\ text = <<>>
    /\ pdf_path = ""
    /\ extract_failed = FALSE
    /\ documents = <<>>
    /\ todo = <<>>
    /\ doc_idx = 0
    /\ write_ok = <<>>
    /\ inserted_count = 0
    /\ total_documents = 0
    /\ store = {}
    /\ processed = 0
    /\ faults = 0
    /\ top_k = 0
    /\ results = <<>>
    /\ doc_id = <<>>
    /\ deleted = FALSE
    /\ mode = ""
    /\ cosmos_db = "none"
    /\ model_client = "none"
    /\ index_exists = FALSE
    /\ index_attempts = 0
    /\ model_context = <<>>
    /\ question = <<>>
    /\ stages = <<>>
    /\ question_embedding = <<>>
    /\ augmented_message = <<>>
    /\ chat_requests = <<>>
    /\ response = <<>>
    /\ answer = <<>>
    /\ exit_path = ""

Next ==
    \/ MainStart
    \/ MainNextFile
    \/ MainDone
    \/ ExtractText
    \/ CheckText
    \/ ChunkLoop
    \/ ChunkReturn
    \/ EmbedChunk
    \/ ProcessReturn
    \/ InsertDocument
    \/ InsertReturn
    \/ Search
    \/ SearchDone

Spec == Init /\ [][Next]_vars

-----------------------------------------------------------------------------
(* CosmosVectorDB.delete_document *)

\* The ids a caller can pass to delete_document.
DocIds == {<<"doc_", Md5(c)>> : c \in Questions}

\* Variant of DeleteOne with an empty filter: some record is deleted, whatever
\* its _id.
DeleteOneAny(coll, id) ==
    IF coll = {} THEN coll ELSE coll \ {CHOOSE r \in coll : TRUE}

\* collection.delete_one({"_id": id}): the record with that _id is removed when
\* there is one.
DeleteOne(coll, id) ==
    LET matching == {r \in coll : r._id = id}
    IN  IF matching = {} THEN coll ELSE coll \ {CHOOSE r \in matching : TRUE}

\* result.deleted_count
DeletedCount(before, after) == Cardinality(before) - Cardinality(after)

\* delete_document(doc_id): True when a record was deleted, False when there
\* was none or the call raised.
DeleteDocument ==
    /\ pc = "idle"
    /\ \E id \in DocIds, ok \in BOOLEAN :
          /\ doc_id' = id
          /\ store' = IF ok THEN DeleteOne(store, id) ELSE store
          /\ deleted' = (ok /\ DeletedCount(store, store') > 0)
    /\ pc' = "deleted"
    /\ UNCHANGED <<ingestVars, faults, top_k, results, mode, cosmos_db,
                   model_client, index_exists, index_attempts, model_context,
                   question, stages, question_embedding, augmented_message,
                   chat_requests, response, answer, exit_path>>

\* The caller is done with the returned value.
DeleteDone ==
    /\ pc = "deleted"
    /\ pc' = "idle"
    /\ doc_id' = <<>>
    /\ deleted' = FALSE
    /\ UNCHANGED <<ingestVars, store, faults, top_k, results, mode, cosmos_db,
                   model_client, index_exists, index_attempts, model_context,
                   question, stages, question_embedding, augmented_message,
                   chat_requests, response, answer, exit_path>>

-----------------------------------------------------------------------------
(* The question entry points up to their first question: the construction of
   the store and of the team *)

\* The locals of ask_question.
askVars == <<question, stages, question_embedding, augmented_message,
             chat_requests, response, answer>>

\* interactive.main / main.ask_single_question start: the PDFProcessor is
\* built and the constructor of CosmosVectorDB is entered.
SessionStart(m) ==
    /\ pc = "idle"
    /\ mode' = m
    /\ pc' = "connect"
    /\ index_attempts' = 0
    /\ UNCHANGED <<ingestVars, store, faults, top_k, results, doc_id, deleted,
                   cosmos_db, model_client, index_exists, model_context,
                   askVars, exit_path>>

\* CosmosVectorDB.__init__ up to the call of _create_vector_index: MongoClient
\* and the ping either succeed, or raise, and then __init__ re-raises and the
\* entry point, which has no handler around the construction, ends.
Connect ==
    /\ pc = "connect"
    /\ \E ok \in BOOLEAN :
          IF ok
          THEN /\ pc' = "create_index"
               /\ exit_path' = exit_path
          ELSE /\ pc' = "exited"
               /\ exit_path' = "fatal"
    /\ UNCHANGED <<ingestVars, store, faults, top_k, results, doc_id, deleted,
                   mode, cosmos_db, model_client, index_exists, index_attempts,
                   model_context, askVars>>

\* What _create_vector_index can meet: no error, an OperationFailure, or
\* another exception (from list_indexes or from create_index).
IndexOutcomes == {"ok", "operation_failure", "error"}

\* Variant of ConstructedAfterIndex without the except branches of
\* _create_vector_index: a failure reaches __init__, which re-raises.
ConstructedAfterIndexStrict(outcome) == outcome = "ok"

\* Whether __init__ completes after _create_vector_index met `outcome`: both
\* except branches of _create_vector_index print and return.
ConstructedAfterIndex(outcome) == TRUE

\* _create_vector_index and the rest of __init__: the index is left alone when
\* it is listed, else created; a failure is printed and swallowed.
CreateVectorIndex ==
    /\ pc = "create_index"
    /\ index_attempts' = index_attempts + 1
    /\ \E outcome \in IndexOutcomes :
          /\ index_exists' = (index_exists \/ outcome = "ok")
          /\ IF ConstructedAfterIndex(outcome)
             THEN /\ cosmos_db' = "open"
                  /\ pc' = "team_init"
                  /\ exit_path' = exit_path
             ELSE /\ cosmos_db' = cosmos_db
                  /\ pc' = "exited"
                  /\ exit_path' = "fatal"
    /\ UNCHANGED <<ingestVars, store, faults, top_k, results, doc_id, deleted,
                   mode, model_client, model_context, askVars>>

\* HRAssistantTeam.__init__: the chat client and the agent hr_assistant, whose
\* context starts empty.  The interactive entry point then prompts; the
\* single-question one calls ask_question.
TeamInit ==
    /\ pc = "team_init"
    /\ model_client' = "open"
    /\ model_context' = <<>>
    /\ pc' = IF mode = "interactive" THEN "prompt" ELSE "single_call"
    /\ UNCHANGED <<ingestVars, store, faults, top_k, results, doc_id, deleted,
                   mode, cosmos_db, index_exists, index_attempts, askVars,
                   exit_path>>

-----------------------------------------------------------------------------
(* HRAssistantTeam.ask_question, one stage per step *)

\* The top_k both entry points pass to ask_question.
ASK_TOP_K == 2

\* The stages of a call, in the order of the code.
AllStages == <<"Received", "Embedded", "Retrieved", "ContextAssembled", "Answered">>

\* The texts the chat service can return.
Replies == {<<"a">>, <<" ", "b">>}

\* ask_question is entered with question q: its locals are fresh.
EnterAsk(q) ==
    /\ question' = q
    /\ stages' = <<"Received">>
    /\ question_embedding' = <<>>
    /\ augmented_message' = <<>>
    /\ chat_requests' = <<>>
    /\ response' = <<>>
    /\ answer' = <<>>
    /\ top_k' = 0
    /\ results' = <<>>
    /\ pc' = "Received"

\* ask_question is left: its locals go out of scope.
LeaveAsk ==
    /\ question' = <<>>
    /\ stages' = <<>>
    /\ question_embedding' = <<>>
    /\ augmented_message' = <<>>
    /\ chat_requests' = <<>>
    /\ response' = <<>>
    /\ answer' = <<>>
    /\ top_k' = 0
    /\ results' = <<>>

\* Step 1: question_embedding = generate_embedding(question), which is [] when
\* the embedding call failed.
EmbedQuestion ==
    /\ pc = "Received"
    /\ \E ok \in BOOLEAN :
          question_embedding' = GenerateEmbedding(question, ok)
    /\ stages' = Append(stages, "Embedded")
    /\ pc' = "Embedded"
    /\ UNCHANGED <<ingestVars, store, faults, top_k, results, doc_id, deleted,
                   mode, cosmos_db, model_client, index_exists, index_attempts,
                   model_context, question, augmented_message, chat_requests,
                   response, answer, exit_path>>

\* Step 2: results = cosmos_db.search(question_embedding, top_k), which is []
\* when the aggregate raised; the threshold keeps its default, 0.
Retrieve ==
    /\ pc = "Embedded"
    /\ top_k' = ASK_TOP_K
    /\ \E ok \in BOOLEAN :
          IF ok
          THEN \E h \in SearchHits(store, question_embedding, SearchK(ASK_TOP_K)) :
                  results' = ThresholdFilter(
                      [i \in 1..Len(h) |-> Project(question_embedding, h[i])], 0)
          ELSE results' = <<>>
    /\ stages' = Append(stages, "Retrieved")
    /\ pc' = "Retrieved"
    /\ UNCHANGED <<ingestVars, store, faults, doc_id, deleted, mode, cosmos_db,
                   model_client, index_exists, index_attempts, model_context,
                   question, question_embedding, augmented_message,
                   chat_requests, response, answer, exit_path>>

\* The excerpt of result number i (from 1): ordinal, source, 1 - similarity
\* and content.
Excerpt(i, result) ==
    [ordinal |-> i, source |-> result.metadata.source,
     relevance |-> 1 - result.similarity, content |-> result.content]

\* Variant of Context that puts a placeholder excerpt in an empty block.
ContextWithPlaceholder(res) ==
    IF res = <<>>
    THEN <<[ordinal |-> 0, source |-> "Unknown", relevance |-> 0, content |-> <<>>]>>
    ELSE [i \in 1..Len(res) |-> Excerpt(i, res[i])]

\* Step 3: context_parts, one excerpt per result, in the order of the results.
Context(res) == [i \in 1..Len(res) |-> Excerpt(i, res[i])]

\* Step 4: the augmented prompt is the fixed instructions around the context
\* block and the question.
AugmentedMessage(context, q) == [context |-> context, question |-> q]

AssembleContext ==
    /\ pc = "Retrieved"
    /\ augmented_message' = AugmentedMessage(Context(results), question)
    /\ stages' = Append(stages, "ContextAssembled")
    /\ pc' = "ContextAssembled"
    /\ UNCHANGED <<ingestVars, store, faults, top_k, results, doc_id, deleted,
                   mode, cosmos_db, model_client, index_exists, index_attempts,
                   model_context, question, question_embedding, chat_requests,
                   response, answer, exit_path>>

\* The messages of the exchange: the agent's system_message, the TextMessage
\* ask_question builds, and the agent's reply.
SystemMessage == [source |-> "system", content |-> <<>>]
UserMessage(prompt) == [source |-> "user", content |-> prompt]
AssistantMessage(reply) == [source |-> "hr_assistant", content |-> reply]

\* What hr_assistant.on_messages sends to the chat service: the system
\* message, the messages the agent has kept from its earlier calls, and the
\* new message (an AssistantAgent keeps its model context between calls; the
\* code builds one agent per team and never resets it).
ChatInput(kept, msg) == <<SystemMessage>> \o kept \o <<msg>>

\* Variant of Answer that trims the reply.
AnswerStripped(reply) == Strip(reply)

\* answer = response.chat_message.content
Answer(reply) == reply

\* Step 5: the one call of on_messages.  It returns a reply, raises, or is
\* interrupted while awaited; the agent keeps the messages it was given and
\* the reply it produced.
ChatCall ==
    /\ pc = "ContextAssembled"
    /\ LET msg == UserMessage(augmented_message)
       IN  /\ chat_requests' = Append(chat_requests, ChatInput(model_context, msg))
           /\ \E kind \in {"reply", "error", "interrupt"} :
                 IF kind = "reply"
                 THEN \E reply \in Replies :
                         /\ response' = reply
                         /\ answer' = Answer(reply)
                         /\ model_context' =
                                model_context \o <<msg, AssistantMessage(reply)>>
                         /\ stages' = Append(stages, "Answered")
                         /\ pc' = "Answered"
                 ELSE /\ response' = response
                      /\ answer' = answer
                      /\ model_context' = Append(model_context, msg)
                      /\ stages' = stages
                      /\ pc' = IF kind = "error" THEN "ask_raised"
                                                 ELSE "ask_interrupted"
    /\ UNCHANGED <<ingestVars, store, faults, top_k, results, doc_id, deleted,
                   mode, cosmos_db, model_client, index_exists, index_attempts,
                   question, question_embedding, augmented_message, exit_path>>

-----------------------------------------------------------------------------
(* interactive.main and main.ask_single_question around ask_question *)

\* The lines input() can return.
Inputs == {<<>>, <<" ">>, <<"Q", " ">>, <<" ", "a">>, <<"a", "b">>}

\* str.lower() on the characters of the model.
Lower(s) == [i \in 1..Len(s) |-> IF s[i] = "Q" THEN "q" ELSE s[i]]

\* ['quit', 'exit', 'bye', 'q']
ExitKeywords == {<<"q","u","i","t">>, <<"e","x","i","t">>, <<"b","y","e">>, <<"q">>}

\* The number of questions the agent has been given.
QuestionsAsked ==
    Cardinality({i \in 1..Len(model_context) : model_context[i].source = "user"})

\* Whether what input() did ends the loop: a line is looked at, while a
\* KeyboardInterrupt and an EOFError both leave the `while True`.
ReadEndsLoop(kind) == kind # "line"

\* One pass of `while True` up to the call of ask_question: input() returns a
\* line, or raises KeyboardInterrupt (the outer except) or EOFError (no
\* handler in main; the finally runs and main ends).  A blank line continues,
\* an exit keyword breaks, any other line is the question.
ReadInput ==
    /\ pc = "prompt"
    /\ \E kind \in {"line", "interrupt", "eof"}, line \in Inputs :
          IF ReadEndsLoop(kind)
          THEN /\ pc' = "closing"
               /\ exit_path' = IF kind = "interrupt" THEN "interrupt" ELSE "error"
               /\ UNCHANGED <<askVars, top_k, results>>
          ELSE LET stripped == Strip(line)
               IN  IF stripped = <<>>
                   THEN /\ pc' = "prompt"
                        /\ UNCHANGED <<askVars, top_k, results, exit_path>>
                   ELSE IF Lower(stripped) \in ExitKeywords
                   THEN /\ pc' = "closing"
                        /\ exit_path' = "keyword"
                        /\ UNCHANGED <<askVars, top_k, results>>
                   ELSE /\ QuestionsAsked < MaxQuestions
                        /\ EnterAsk(stripped)
                        /\ exit_path' = exit_path
    /\ UNCHANGED <<ingestVars, store, faults, doc_id, deleted, mode, cosmos_db,
                   model_client, index_exists, index_attempts, model_context>>

\* main.ask_single_question: `answer = await hr_team.ask_question(question)`
\* with the question of the command line.
AskSingle ==
    /\ pc = "single_call"
    /\ \E q \in Questions : EnterAsk(q)
    /\ UNCHANGED <<ingestVars, store, faults, doc_id, deleted, mode, cosmos_db,
                   model_client, index_exists, index_attempts, model_context,
                   exit_path>>

\* ask_question returns its answer: the interactive loop prompts again, the
\* single-question entry point goes to its finally.
AskReturn ==
    /\ pc = "Answered"
    /\ LeaveAsk
    /\ IF mode = "interactive"
       THEN /\ pc' = "prompt"
            /\ exit_path' = exit_path
       ELSE /\ pc' = "closing"
            /\ exit_path' = "returned"
    /\ UNCHANGED <<ingestVars, store, faults, doc_id, deleted, mode, cosmos_db,
                   model_client, index_exists, index_attempts, model_context>>

\* ask_question raised.  interactive.main catches an Exception, prints it and
\* continues; an interrupt, and any exception in ask_single_question, goes to
\* the finally.
AskRaised ==
    /\ pc \in {"ask_raised", "ask_interrupted"}
    /\ LeaveAsk
    /\ IF pc = "ask_raised" /\ mode = "interactive"
       THEN /\ pc' = "prompt"
            /\ exit_path' = exit_path
       ELSE /\ pc' = "closing"
            /\ exit_path' = IF pc = "ask_raised" THEN "error" ELSE "interrupt"
    /\ UNCHANGED <<ingestVars, store, faults, doc_id, deleted, mode, cosmos_db,
                   model_client, index_exists, index_attempts, model_context>>

\* finally: `await hr_team.close()`, which closes the chat client; the entry
\* point then ends.  Nothing calls cosmos_db.close().
Close ==
    /\ pc = "closing"
    /\ model_client' = "closed"
    /\ pc' = "exited"
    /\ UNCHANGED <<ingestVars, store, faults, top_k, results, doc_id, deleted,
                   mode, cosmos_db, index_exists, index_attempts, model_context,
                   askVars, exit_path>>

\* The process of the entry point is gone, and its objects with it.
ProcessExit ==
    /\ pc = "exited"
    /\ pc' = "idle"
    /\ mode' = ""
    /\ cosmos_db' = "none"
    /\ model_client' = "none"
    /\ index_attempts' = 0
    /\ model_context' = <<>>
    /\ exit_path' = ""
    /\ UNCHANGED <<ingestVars, store, faults, top_k, results, doc_id, deleted,
                   index_exists, askVars>>

\* The stores a question session can start on: what ingesting a.pdf leaves
\* when its text is "ab" (one chunk) and later "a a" (two chunks "a").
SessionDocs ==
    {MakeDocument(<<"a", "b">>, Embedding(<<"a", "b">>), 0, 1, PdfFiles[1]),
     MakeDocument(<<"a">>, Embedding(<<"a">>), 1, 2, PdfFiles[1])}
SessionStores == {{WithId(d) : d \in S} : S \in SUBSET SessionDocs}

InitSession ==
    /\ pc = "idle"
    /\ chunk_size = CHUNK_SIZE
    /\ overlap = 0
    /\ start = 0
    /\ chunks = <<>>
    /\ text = <<>>
    /\ pdf_path = ""
    /\ extract_failed = FALSE
    /\ documents = <<>>
    /\ todo = <<>>
    /\ doc_idx = 0
    /\ write_ok = <<>>
    /\ inserted_count = 0
    /\ total_documents = 0
    /\ store \in SessionStores
    /\ processed = 0
    /\ faults = 0
    /\ top_k = 0
    /\ results = <<>>
    /\ doc_id = <<>>
    /\ deleted = FALSE
    /\ mode = ""
    /\ cosmos_db = "none"
    /\ model_client = "none"
    /\ index_exists \in BOOLEAN
    /\ index_attempts = 0
    /\ model_context = <<>>
    /\ question = <<>>
    /\ stages = <<>>
    /\ question_embedding = <<>>
    /\ augmented_message = <<>>
    /\ chat_requests = <<>>
    /\ response = <<>>
    /\ answer = <<>>
    /\ exit_path = ""

NextSession ==
    \/ \E m \in {"interactive", "single"} : SessionStart(m)
    \/ Connect
    \/ CreateVectorIndex
    \/ TeamInit
    \/ ReadInput
    \/ AskSingle
    \/ EmbedQuestion
    \/ Retrieve
    \/ AssembleContext
    \/ ChatCall
    \/ AskReturn
    \/ AskRaised
    \/ Close
    \/ ProcessExit

SpecSession == InitSession /\ [][NextSession]_vars

-----------------------------------------------------------------------------
(* The store under all its users: the last file of the batch entry point's
   budget is ingested, records are searched and deleted, and single questions
   are asked *)

InitStore ==
    /\ pc = "idle"
    /\ chunk_size = CHUNK_SIZE
    /\ overlap \in 0..CHUNK_SIZE
    /\ start = 0
    /\ chunks = <<>>
    /\ text = <<>>
    /\ pdf_path = ""
    /\ extract_failed = FALSE
    /\ documents = <<>>
    /\ todo = <<>>
    /\ doc_idx = 0
    /\ write_ok = <<>>
    /\ inserted_count = 0
    /\ total_documents = 0
    /\ store = {}
    /\ processed = MaxFiles - 1
    /\ faults = 0
    /\ top_k = 0
    /\ results = <<>>
    /\ doc_id = <<>>
    /\ deleted = FALSE
    /\ mode = ""
    /\ cosmos_db = "none"
    /\ model_client = "none"
    /\ index_exists = FALSE
    /\ index_attempts = 0
    /\ model_context = <<>>
    /\ question = <<>>
    /\ stages = <<>>
    /\ question_embedding = <<>>
    /\ augmented_message = <<>>
    /\ chat_requests = <<>>
    /\ response = <<>>
    /\ answer = <<>>
    /\ exit_path = ""

NextStore ==
    \/ Next
    \/ DeleteDocument
    \/ DeleteDone
    \/ SessionStart("single")
    \/ Connect
    \/ CreateVectorIndex
    \/ TeamInit
    \/ AskSingle
    \/ EmbedQuestion
    \/ Retrieve
    \/ AssembleContext
    \/ ChatCall
    \/ AskReturn
    \/ AskRaised
    \/ Close
    \/ ProcessExit

SpecStore == InitStore /\ [][NextStore]_vars

-----------------------------------------------------------------------------
(* Claims about the chunker *)

Valid == chunk_size > 0 /\ 0 <= overlap /\ overlap < chunk_size
Returned == pc = "embed"

HelloChunk1 == <<"H","e","l","l","o"," ","w","o","r","l">>
HelloChunk2 == <<"o","r","l","d"," ","t","e","s","t">>
HelloChunk3 == <<"s","t">>
IsHello == text = HelloText /\ chunk_size = HelloChunkSize /\ overlap = HelloOverlap

\* C1 (as claimed): chunk_text("Hello world test", 10, 3) returns exactly the
\* two chunks "Hello worl" and "orld test", from the windows at offsets 0 and 7.
C1_HelloTwoChunks ==
    (IsHello /\ Returned) => chunks = <<HelloChunk1, HelloChunk2>>

\* C1 (what the code returns): the window at offset 14 is also taken, so the
\* result is "Hello worl", "orld test", "st".
C1_HelloThreeChunks ==
    (IsHello /\ Returned) => chunks = <<HelloChunk1, HelloChunk2, HelloChunk3>>

\* C2: with 0 <= overlap < chunk_size the loop of chunk_text always exits;
\* with overlap >= chunk_size and a non-empty text it never exits.
C2_TerminatesIffOverlapSmaller ==
    /\ (Valid ~> Returned)
    /\ []((overlap >= chunk_size /\ text # <<>>) => (pc = "chunk" /\ LoopTest))

C2_Witness ==
    /\ overlap >= chunk_size
    /\ text # <<>>
    /\ pc = "chunk"
    /\ (Len(chunks) >= IterCap(text) \/ start <= -IterCap(text))

\* C3: with valid parameters every returned chunk is non-empty, starts and
\* ends with a non-whitespace character and is at most chunk_size long; a
\* text with no non-whitespace character gives no chunk.
C3_ChunksTrimmedAndBounded ==
    (Valid /\ Returned) =>
        /\ \A k \in 1..Len(chunks) :
              /\ Len(chunks[k]) >= 1
              /\ Len(chunks[k]) <= chunk_size
              /\ chunks[k][1] \notin Whitespace
              /\ chunks[k][Len(chunks[k])] \notin Whitespace
        /\ (\A i \in 1..Len(text) : text[i] \in Whitespace) => chunks = <<>>

C3_Witness ==
    /\ Valid /\ Returned
    /\ Len(chunks) >= 2
    /\ \E k \in 1..Len(chunks) : Len(chunks[k]) < chunk_size
    /\ \E i \in 2..Len(text) : text[i] \in Whitespace /\ text[i-1] \notin Whitespace

\* The positions (1-based) of the window at 0-based offset o, and those of
\* them that hold a non-whitespace character.
WinPos(o) == {i \in 1..Len(text) : o < i /\ i <= o + chunk_size}
SolidPos(o) == {i \in WinPos(o) : text[i] \notin Whitespace}
\* The offsets 0, stride, 2*stride, ... below Len(text) whose window is not blank.
TakenOffsets ==
    {o \in 0..(Len(text) - 1) :
        o % (chunk_size - overlap) = 0 /\ SolidPos(o) # {}}
TrimmedWindow(o) ==
    LET lo == CHOOSE i \in SolidPos(o) : \A k \in SolidPos(o) : i <= k
        hi == CHOOSE i \in SolidPos(o) : \A k \in SolidPos(o) : i >= k
    IN  [k \in 1..(hi - lo + 1) |-> text[lo + k - 1]]
KthOffset(k) ==
    CHOOSE o \in TakenOffsets : Cardinality({p \in TakenOffsets : p < o}) = k - 1

\* C4: with valid parameters the returned chunks are the trimmed non-blank
\* windows at offsets 0, stride, 2*stride, ... in increasing order, and every
\* non-whitespace position of the text lies in the window of one of them.
C4_ChunksCoverText ==
    (Valid /\ Returned) =>
        /\ Len(chunks) = Cardinality(TakenOffsets)
        /\ \A k \in 1..Len(chunks) : chunks[k] = TrimmedWindow(KthOffset(k))
        /\ \A i \in 1..Len(text) :
              text[i] \notin Whitespace => \E o \in TakenOffsets : i \in WinPos(o)

C4_Witness ==
    /\ Valid /\ Returned
    /\ overlap > 0
    /\ Len(chunks) >= 2
    /\ Len(chunks) < Cardinality({o \in 0..(Len(text) - 1) : o % (chunk_size - overlap) = 0})

-----------------------------------------------------------------------------
(* Claims about the store and the ingestion pipeline *)

\* The documents of the current insert_documents call whose write succeeded.
Written == {i \in 1..Len(write_ok) : write_ok[i]}
StoredWithContent(c) == {r \in store : r.content = c}

\* C5: once a document has been upserted, the store holds exactly one record
\* with its content, however often that content is upserted again and whatever
\* is upserted in between, and the id stored for a content never changes.
C5_UpsertIdempotent ==
    /\ [](\A i \in Written :
              Cardinality(StoredWithContent(documents[i].content)) = 1)
    /\ [][\A r \in store, n \in store' :
              r.content = n.content => r._id = n._id]_vars

\* The same content written twice by the current call, into a store that also
\* holds a record of another content written before.
C5_Witness ==
    /\ pc = "insert"
    /\ \E i, k \in Written :
          /\ i < k
          /\ documents[i].content = documents[k].content
          /\ Cardinality(StoredWithContent(documents[i].content)) = 1
          /\ \E r \in store : r.content # documents[i].content

\* C6: an upsert replaces no record of another content: every record that a
\* step removes or replaces has the content of the document being upserted,
\* and a record written with a new content gets an id no stored record of
\* another content has.
C6_ChangedContentNewRecord ==
    [][/\ \A r \in store \ store' :
             /\ pc = "insert"
             /\ doc_idx < Len(documents)
             /\ r.content = documents[doc_idx + 1].content
       /\ \A r \in store, n \in store' \ store :
             r.content # n.content => r._id # n._id]_vars

\* The same chunk index of the same source file stored with two contents: the
\* file was ingested again with that chunk changed, and the old record stayed.
C6_Witness ==
    \E r, n \in store :
        /\ r.metadata.source = n.metadata.source
        /\ r.metadata.chunk_id = n.metadata.chunk_id
        /\ r.content # n.content

\* C7: search returns at most top_k results, in non-increasing order of the
\* returned similarity, with or without the threshold filter and also when
\* the underlying search raises.
C7_SearchBoundedAndOrdered ==
    /\ Len(results) <= top_k
    /\ \A i \in 1..(Len(results) - 1) :
          results[i].similarity >= results[i + 1].similarity

C7_Witness ==
    /\ pc = "searched"
    /\ Cardinality(store) > top_k
    /\ Len(results) = top_k
    /\ Len(results) >= 2
    /\ results[1].similarity > results[2].similarity

\* C8: insert_documents attempts the write of every document of the batch,
\* whatever the outcome of the other writes; each document whose write
\* succeeded is stored, and the count is the number of successful writes.
C8_WriteFailureDoesNotStopBatch ==
    pc = "insert" =>
        /\ Len(write_ok) = doc_idx
        /\ doc_idx <= Len(documents)
        /\ inserted_count = Cardinality(Written)
        /\ \A i \in Written :
              \E r \in store :
                  r._id = documents[i]._id /\ r.content = documents[i].content

C8_Witness ==
    /\ pc = "insert"
    /\ doc_idx = Len(documents)
    /\ \E i, j, k \in 1..Len(write_ok) :
          /\ i < j /\ j < k
          /\ write_ok[i] /\ ~write_ok[j] /\ write_ok[k]
          /\ documents[k] \in store
    /\ inserted_count = Len(documents) - 1

\* C9 (as claimed): when the extraction of a file raised, no document of that
\* file is written to the store.
C9_ExtractErrorSkipsFile ==
    extract_failed => Written = {}

\* C10: process_pdf emits one document per chunk, in order, with chunk_id
\* 0..n-1 and total_chunks n; the contentVector is the embedding, or empty
\* when the embedding call failed, and the document is upserted all the same.
C10_OneDocumentPerChunk ==
    /\ pc = "embed" =>
          /\ Len(documents) <= Len(chunks)
          /\ \A i \in 1..Len(documents) :
                /\ documents[i].content = chunks[i]
                /\ documents[i].contentVector \in {<<>>, Embedding(chunks[i])}
                /\ documents[i].metadata.chunk_id = i - 1
                /\ documents[i].metadata.total_chunks = Len(chunks)
    /\ pc = "insert" =>
          /\ documents # <<>>
          /\ \A i \in 1..Len(documents) :
                /\ documents[i].metadata.chunk_id = i - 1
                /\ documents[i].metadata.total_chunks = Len(documents)

C10_Witness ==
    /\ pc = "insert"
    /\ Len(documents) >= 2
    /\ \E i \in Written :
          /\ documents[i].contentVector = <<>>
          /\ documents[i] \in store
    /\ \E i \in Written : documents[i].contentVector # <<>>

-----------------------------------------------------------------------------
(* Claims about the question pipeline and the question entry points *)

\* A call of ask_question has ended: it is about to return, or it raised.
AskEnded == pc \in {"Answered", "ask_raised", "ask_interrupted"}
AskAborted == pc \in {"ask_raised", "ask_interrupted"}
InAsk == pc \in {"Received", "Embedded", "Retrieved", "ContextAssembled"} \/ AskEnded

\* The stages passed are the first n stages of the code's order.
StagesInOrder ==
    /\ Len(stages) <= Len(AllStages)
    /\ \A i \in 1..Len(stages) : stages[i] = AllStages[i]

\* C11 (as claimed): every call of ask_question passes the five stages
\* Received, Embedded, Retrieved, ContextAssembled, Answered in that order,
\* none skipped or repeated, and returns the chat service's text unchanged.
C11_EveryRunPassesAllStages ==
    /\ StagesInOrder
    /\ AskEnded => stages = AllStages
    /\ pc = "Answered" => answer = response

\* C11 (amended): every call passes Received, Embedded, Retrieved and
\* ContextAssembled in that order, none skipped or repeated, whatever the
\* outcome of the embedding call and of the search, which both come before the
\* one chat call; the call then either reaches Answered and returns the chat
\* service's text unchanged, or ends without an answer because the chat call
\* raised or was interrupted.
C11_StagesInOrderUntilChat ==
    /\ StagesInOrder
    /\ InAsk => (stages # <<>> /\ (~AskAborted => stages[Len(stages)] = pc))
    /\ (InAsk /\ top_k # 0) => Len(stages) >= 3
    /\ Len(chat_requests) <= 1
    /\ chat_requests # <<>> => (AskEnded /\ top_k # 0)
    /\ pc = "Answered" =>
          /\ stages = AllStages
          /\ Len(chat_requests) = 1
          /\ response \in Replies
          /\ answer = response
    /\ AskAborted =>
          /\ stages = SubSeq(AllStages, 1, 4)
          /\ Len(chat_requests) = 1
          /\ answer = <<>>

\* An answer with a blank at its edge, returned after the embedding call
\* failed and the search found nothing in a store that holds records.
C11_Witness ==
    /\ pc = "Answered"
    /\ question_embedding = <<>>
    /\ results = <<>>
    /\ store # {}
    /\ answer = <<" ", "b">>

\* C12: when the search returns no result (the store is empty, or the search
\* failed or found nothing), the context block has no excerpt, the chat
\* service is called exactly once, with the augmented prompt of the question
\* as the new message, and the reply, when there is one, is the answer.
C12_EmptyContextStillAsks ==
    (results = <<>> /\ (pc = "ContextAssembled" \/ AskEnded)) =>
        /\ augmented_message = AugmentedMessage(<<>>, question)
        /\ AskEnded =>
              /\ Len(chat_requests) = 1
              /\ chat_requests[1][Len(chat_requests[1])] = UserMessage(augmented_message)
        /\ pc = "Answered" => (response \in Replies /\ answer = response)

C12_Witness ==
    /\ pc = "Answered"
    /\ store = {}
    /\ results = <<>>
    /\ question_embedding # <<>>
    /\ Len(chat_requests) = 1
    /\ answer \in Replies

\* C13 (as claimed): when a question session that got its store and its team
\* ends, on whatever path, the store connection and the chat client are closed.
C13_BothClosedAtExit ==
    (pc = "exited" /\ exit_path # "fatal") =>
        (cosmos_db = "closed" /\ model_client = "closed")

\* C14 (as claimed): the interactive loop ends only on an exit keyword or an
\* interrupt.
C14_LoopEndsOnKeywordOrInterrupt ==
    (mode = "interactive" /\ pc \in {"closing", "exited"} /\ exit_path # "fatal") =>
        exit_path \in {"keyword", "interrupt"}

\* A step of delete_document as a whole.
DeleteStep == pc = "idle" /\ pc' = "deleted"

\* C15: no step of ask_question or search changes the store; a record is
\* added or replaced only by a step of insert_documents; a record is removed
\* without replacement only by delete_document, which removes the record with
\* the given id and no other, and returns true exactly when it removed one.
C15_StoreChangesOnlyByInsertAndDelete ==
    [][/\ (store' \ store # {}) => pc = "insert"
       /\ (store \ store' # {}) => (pc = "insert" \/ DeleteStep)
       /\ (InAsk \/ pc = "searched" \/ pc' = "searched") => store' = store
       /\ DeleteStep =>
             /\ store' \subseteq store
             /\ \A r \in store \ store' : r._id = doc_id'
             /\ \A r \in store' : r._id # doc_id' \/ ~deleted'
             /\ deleted' = (store' # store)]_vars

\* delete_document returned true for one record of a store that held another,
\* which is still there.
C15_Witness ==
    /\ pc = "deleted"
    /\ deleted
    /\ store # {}
    /\ \A r \in store : r._id # doc_id

\* C16 (as claimed): the input of every chat call is the system message and
\* the augmented prompt of the question of that call, and nothing else.
C16_ChatInputIsOwnPrompt ==
    \A i \in 1..Len(chat_requests) :
        chat_requests[i] = <<SystemMessage, UserMessage(augmented_message)>>

\* C17: a file whose extracted text is blank ends process_pdf at the blank
\* check: main goes on with its loop over the remaining files, the store and
\* the running total are unchanged and no call is made; chunk_text and the
\* embedding loop only ever see a text that is not blank, and
\* insert_documents only a list that is not empty.
C17_BlankTextSkipsFile ==
    /\ [][(pc = "extracted" /\ IsBlank(text)) =>
              /\ pc' = "main_loop"
              /\ todo' = todo
              /\ store' = store
              /\ total_documents' = total_documents
              /\ documents' = <<>>
              /\ faults' = faults]_vars
    /\ []((pc \in {"chunk", "embed"} => ~IsBlank(text))
          /\ (pc = "insert" => documents # <<>>))

\* A whitespace-only text at the blank check, for the second file of a batch
\* whose first file was stored.
C17_Witness ==
    /\ pc = "extracted"
    /\ text # <<>>
    /\ IsBlank(text)
    /\ total_documents > 0
    /\ store # {}

\* C18: the constructor of the store calls _create_vector_index exactly once;
\* whatever that call meets (the index is there, it is created, the creation
\* fails), the constructor completes and the store is used afterwards; the
\* construction fails only when the connection does, before any index call,
\* and then there is no store and no team.
C18_IndexFailureNotFatal ==
    /\ index_attempts <= 1
    /\ cosmos_db = "open" => index_attempts = 1
    /\ pc = "create_index" => (cosmos_db = "none" /\ index_attempts = 0)
    /\ pc \in {"team_init", "prompt", "single_call"} => cosmos_db = "open"
    /\ InAsk => cosmos_db = "open"
    /\ exit_path = "fatal" =>
          /\ pc = "exited"
          /\ index_attempts = 0
          /\ cosmos_db = "none"
          /\ model_client = "none"

\* A search through a store whose construction did not get its index.
C18_Witness ==
    /\ pc = "Retrieved"
    /\ cosmos_db = "open"
    /\ index_attempts = 1
    /\ ~index_exists

-----------------------------------------------------------------------------
(* Claim about the ids of equal contents *)

\* The last document with the content of documents[i] that the current call
\* has written.
LastWritten(i) ==
    CHOOSE k \in Written :
        /\ documents[k].content = documents[i].content
        /\ \A m \in Written : documents[m].content = documents[i].content => m <= k

\* C19: the id of a record is a function of its content alone, so the store
\* holds one record per content: a successful write adds a record exactly when
\* no record has that content, and else replaces the one that has; the record
\* of a content is the last document written with it, metadata and vector
\* included; the count of insert_documents is the number of writes, not of
\* records.
C19_OneRecordPerContent ==
    /\ [](/\ \A r \in store : r._id = <<"doc_", Md5(r.content)>>
          /\ \A r, n \in store : r.content = n.content => r = n
          /\ pc = "insert" =>
                /\ \A i \in Written : documents[LastWritten(i)] \in store
                /\ inserted_count = Cardinality(Written)
                /\ inserted_count >=
                      Cardinality({documents[i].content : i \in Written}))
    /\ [][(pc = "insert" /\ Len(write_ok') > Len(write_ok)
              /\ write_ok'[Len(write_ok')]) =>
             LET doc == documents'[doc_idx + 1]
             IN  /\ store' = {r \in store : r.content # doc.content} \cup {doc}
                 /\ Cardinality(store') = Cardinality(store) +
                        (IF StoredWithContent(doc.content) = {} THEN 1 ELSE 0)]_vars

\* Every write of every batch succeeded, two files had chunks of equal content
\* and the counts exceed the number of records: the record of the content
\* carries the metadata of the chunk written last.
C19_Witness ==
    /\ pc = "insert"
    /\ faults = 0
    /\ doc_idx = Len(documents)
    /\ inserted_count = Len(documents)
    /\ inserted_count > Cardinality(store)
    /\ total_documents > 0
    /\ \E r \in store : r.metadata.source = "b.pdf" /\ r.metadata.chunk_id > 0


====
